---- MODULE Spec2Model ----
(***************************************************************************)
(* A model of the stub registry and matching engine of axios-http-mock:   *)
(* HttpMock (registry, on, reset, adapter), Request (the stub definition  *)
(* and its builder setters), RequestMatcher (strict and partial           *)
(* selection) and the helpers of util.ts (settle, joinUri,                *)
(* extractRequestHeaders).                                                 *)
(***************************************************************************)
EXTENDS Integers, Sequences, FiniteSets, TLC

VARIABLES mode, heap, registry, last, calls

vars == <<mode, heap, registry, last, calls>>

---------------------------------------------------------------------------
(* Bounds of the model.                                                    *)

\* Request objects created by on() during one run (live or detached).
MaxRequests == 2

\* invocationCount is unbounded in the code; a dispatch that would push a
\* definition's count past this cap is not taken.
MaxInvocations == 2

\* Definitions in the registry drawn by InitMatch.
MaxDefs == 2

\* Callers whose calls can be in flight at the same time.
MaxCallers == 2

---------------------------------------------------------------------------
(* JavaScript values.  Every value is a record of the same shape so that   *)
(* any two can be compared.  A string is a sequence of tokens ("/" is a    *)
(* token of its own); an object is the sequence of its own enumerable      *)
(* <<key, value>> entries in insertion order, with string values.          *)

Undefined == [type |-> "undefined", num |-> 0, str |-> <<>>, entries |-> <<>>]

Num(n) == [type |-> "number", num |-> n, str |-> <<>>, entries |-> <<>>]

Str(s) == [type |-> "string", num |-> 0, str |-> s, entries |-> <<>>]

Obj(e) == [type |-> "object", num |-> 0, str |-> <<>>, entries |-> e]

\* ToBoolean: undefined, 0 and "" are falsy, every object is truthy.
Truthy(v) ==
  CASE v.type = "undefined" -> FALSE
    [] v.type = "number" -> v.num # 0
    [] v.type = "string" -> v.str # <<>>
    [] OTHER -> TRUE

Keys(e) == {e[i][1] : i \in DOMAIN e}

Get(e, k) == LET i == CHOOSE j \in DOMAIN e : e[j][1] = k IN e[i][2]

\* { ...a, ...b } on entry lists: a's keys keep their place and take b's
\* value when b has the key; b's new keys follow in b's order.
Spread(a, b) ==
  [i \in DOMAIN a |-> IF a[i][1] \in Keys(b) THEN <<a[i][1], Get(b, a[i][1])>> ELSE a[i]]
    \o SelectSeq(b, LAMBDA p : p[1] \notin Keys(a))

\* deepEqual comparing the keys in the order they were inserted.
deepEqual_InOrder(a, b) == a = b

\* assert.deepEqual (legacy mode) on the values above: two objects are equal
\* when they own the same number of keys and every key of one is a key of
\* the other with an equal value, whatever the order of the keys; an object
\* never equals a primitive; primitives are compared with ==.
deepEqual(a, b) ==
  IF a.type = "object" /\ b.type = "object"
  THEN /\ Len(a.entries) = Len(b.entries)
       /\ \A i \in DOMAIN a.entries :
            /\ a.entries[i][1] \in Keys(b.entries)
            /\ Get(b.entries, a.entries[i][1]) = a.entries[i][2]
  ELSE /\ a.type = b.type
       /\ a.num = b.num
       /\ a.str = b.str

---------------------------------------------------------------------------
(* types.ts                                                                *)

METHODS ==
  <<"get", "delete", "head", "options", "post", "put", "patch", "purge", "link", "unlink">>

Method == {METHODS[i] : i \in DOMAIN METHODS}

\* The keys of a RequestOptions, in the order the matcher visits them.
matcherKeys == <<"headers", "params", "body">>

NoOptions == [headers |-> Undefined, params |-> Undefined, body |-> Undefined]

---------------------------------------------------------------------------
(* request.ts: the Request class (a stub definition).                      *)

\* _response before respondWith(): the field is undefined.
NoResponse == [defined |-> FALSE, status |-> 0, data |-> Undefined, headers |-> Undefined]

\* new Request(method) ignoring its argument.
NewRequest_AlwaysGet(method) ==
  [method |-> "get",
   uri |-> Undefined,
   options |-> NoOptions,
   exception |-> Undefined,
   response |-> NoResponse,
   invocationCount |-> 0,
   maxInvocationCount |-> Undefined]

\* new Request(method).  options undefined reads as every getter undefined.
NewRequest(method) ==
  [method |-> method,
   uri |-> Undefined,
   options |-> NoOptions,
   exception |-> Undefined,
   response |-> NoResponse,
   invocationCount |-> 0,
   maxInvocationCount |-> Undefined]

\* Request.to
Request_to(r, uri) == [r EXCEPT !.uri = uri]

\* with() merging the keys of a mapping given again into the earlier one.
Request_with_MergesKeys(r, o) ==
  [r EXCEPT !.options =
     [k \in DOMAIN NoOptions |->
        IF k \notin DOMAIN o THEN r.options[k]
        ELSE IF r.options[k].type = "object" /\ o[k].type = "object"
        THEN Obj(Spread(r.options[k].entries, o[k].entries))
        ELSE o[k]]]

\* Request.with: this.options = { ...this.options, ...options }; o is a
\* function from the keys the caller supplied to their values.
Request_with(r, o) ==
  [r EXCEPT !.options = [k \in DOMAIN NoOptions |-> IF k \in DOMAIN o THEN o[k] ELSE r.options[k]]]

\* once() that also restarts the count.
Request_once_ResetsCount(r) == [r EXCEPT !.maxInvocationCount = Num(1), !.invocationCount = 0]

\* Request.once
Request_once(r) == [r EXCEPT !.maxInvocationCount = Num(1)]

\* Request.timeout: this.exception = new Error("Timeout")
Request_timeout(r) == [r EXCEPT !.exception = Str(<<"Timeout">>)]

\* isResponseWithHeaders, on a reply argument [data, headers, plain]: the
\* argument has a data and a headers property, both not undefined.
isResponseWithHeaders(reply) == reply.data # Undefined /\ reply.headers # Undefined

\* Request.respondWith(status, response?).  reply.given says whether the
\* second argument is truthy; reply.plain is the argument taken as the body.
Request_respondWith(r, status, reply) ==
  LET data == IF ~reply.given THEN Undefined
              ELSE IF isResponseWithHeaders(reply) THEN reply.data ELSE reply.plain
      headers == IF reply.given /\ isResponseWithHeaders(reply) THEN reply.headers ELSE Obj(<<>>)
  IN [r EXCEPT !.response = [defined |-> TRUE, status |-> status, data |-> data, headers |-> headers]]

\* isInvokable taking a missing limit for a limit of one.
isInvokable_DefaultOnce(r) ==
  r.invocationCount < (IF Truthy(r.maxInvocationCount) THEN r.maxInvocationCount.num ELSE 1)

\* isInvokable with the limit off by one.
isInvokable_OffByOne(r) ==
  ~Truthy(r.maxInvocationCount) \/ r.invocationCount <= r.maxInvocationCount.num

\* Request.isInvokable
isInvokable(r) ==
  ~Truthy(r.maxInvocationCount) \/ r.invocationCount < r.maxInvocationCount.num

\* isValid without the check of the outcome.
isValid_UriOnly(r) == Truthy(r.uri)

\* Request.isValid
isValid(r) == Truthy(r.uri) /\ (r.response.defined \/ Truthy(r.exception))

\* Request.toJSON: what JSON.stringify writes of a request.
toJSON(r) ==
  [method |-> r.method, uri |-> r.uri, headers |-> r.options.headers,
   params |-> r.options.params, body |-> r.options.body]

\* The getter looking at the response before the exception.
Request_response_ResponseFirst(r) ==
  LET counted == [r EXCEPT !.invocationCount = @ + 1]
  IN IF r.response.defined
     THEN [request |-> counted, thrown |-> "", message |-> <<>>, value |-> r.response]
     ELSE IF Truthy(r.exception)
     THEN [request |-> counted, thrown |-> "Error", message |-> r.exception.str, value |-> NoResponse]
     ELSE [request |-> counted, thrown |-> "UnconfiguredResponseError", message |-> <<>>, value |-> NoResponse]

\* The getter returning without counting the invocation.
Request_response_NoCount(r) ==
  IF Truthy(r.exception)
  THEN [request |-> r, thrown |-> "Error", message |-> r.exception.str, value |-> NoResponse]
  ELSE IF ~r.response.defined
  THEN [request |-> r, thrown |-> "UnconfiguredResponseError", message |-> <<>>, value |-> NoResponse]
  ELSE [request |-> r, thrown |-> "", message |-> <<>>, value |-> r.response]

\* The getter counting the invocation only when it does not throw the
\* configured exception.
Request_response_ThrowsUncounted(r) ==
  LET counted == [r EXCEPT !.invocationCount = @ + 1]
  IN IF Truthy(r.exception)
     THEN [request |-> r, thrown |-> "Error", message |-> r.exception.str, value |-> NoResponse]
     ELSE IF ~r.response.defined
     THEN [request |-> counted, thrown |-> "UnconfiguredResponseError", message |-> <<>>, value |-> NoResponse]
     ELSE [request |-> counted, thrown |-> "", message |-> <<>>, value |-> r.response]

\* The getter Request.response: the count is incremented first, then the
\* configured exception is thrown, then a missing response is an error.
\* Gives the request after the call and what the getter did.
Request_response(r) ==
  LET counted == [r EXCEPT !.invocationCount = @ + 1]
  IN IF Truthy(r.exception)
     THEN [request |-> counted, thrown |-> "Error", message |-> r.exception.str, value |-> NoResponse]
     ELSE IF ~r.response.defined
     THEN [request |-> counted, thrown |-> "UnconfiguredResponseError", message |-> <<>>, value |-> NoResponse]
     ELSE [request |-> counted, thrown |-> "", message |-> <<>>, value |-> r.response]

---------------------------------------------------------------------------
(* request-matcher.ts                                                      *)

\* eq letting an absent side equal anything, as ok does.
eq_Lenient(expected, actual) ==
  ~Truthy(expected) \/ ~Truthy(actual) \/ deepEqual(expected, actual)

\* eq: assert.deepEqual does not throw.
eq(expected, actual) == deepEqual(expected, actual)

\* ok comparing also when a side is absent.
ok_BothRequired(expected, actual) == eq(expected, actual)

\* ok
ok(expected, actual) ==
  IF ~Truthy(expected) \/ ~Truthy(actual) THEN TRUE ELSE eq(expected, actual)

\* score
score(expected, actual) ==
  LET multiplier == IF Truthy(expected) /\ Truthy(actual) THEN 2 ELSE 0
  IN (IF ok(expected, actual) THEN 1 ELSE 0) * multiplier

\* FilterableRequest.for without the comparison of the uri.
FilterableRequest_for_AnyUri(r, uri) == isInvokable(r)

\* FilterableRequest.for
FilterableRequest_for(r, uri) == r.uri = uri /\ isInvokable(r)

\* FilterableRequest.pass
FilterableRequest_pass(r, options) ==
  \A i \in DOMAIN matcherKeys :
    ~Truthy(options[matcherKeys[i]]) \/ ok(options[matcherKeys[i]], r.options[matcherKeys[i]])

RECURSIVE SumScores(_, _, _)
SumScores(r, options, i) ==
  IF i > Len(matcherKeys) THEN 0
  ELSE score(r.options[matcherKeys[i]], options[matcherKeys[i]]) + SumScores(r, options, i + 1)

\* FilterableRequest.score
FilterableRequest_score(r, options) == SumScores(r, options, 1)

\* FilterableRequest.eq without the comparison of the body.
FilterableRequest_eq_NoBody(r, options) ==
  /\ eq(r.options.headers, options.headers)
  /\ eq(r.options.params, options.params)

\* FilterableRequest.eq
FilterableRequest_eq(r, options) ==
  /\ eq(r.options.headers, options.headers)
  /\ eq(r.options.params, options.params)
  /\ eq(r.options.body, options.body)

\* The comparator handed to sort: negative when a goes before b.
compareScores(h, a, b, options) ==
  FilterableRequest_score(h[b], options) - FilterableRequest_score(h[a], options)

\* Array.prototype.sort, which is stable: an element is placed before the
\* first later element that the comparator does not put before it.
RECURSIVE Insert(_, _, _, _)
Insert(h, x, sorted, options) ==
  IF sorted = <<>> THEN <<x>>
  ELSE IF compareScores(h, x, Head(sorted), options) <= 0 THEN <<x>> \o sorted
  ELSE <<Head(sorted)>> \o Insert(h, x, Tail(sorted), options)

RECURSIVE Sort(_, _, _)
Sort(h, ids, options) ==
  IF ids = <<>> THEN <<>> ELSE Insert(h, Head(ids), Sort(h, Tail(ids), options), options)

\* find() taking the last element that satisfies the test.
FindEq_Last(h, ids, options) ==
  LET hits == SelectSeq(ids, LAMBDA i : FilterableRequest_eq(h[i], options))
  IN IF hits = <<>> THEN 0 ELSE hits[Len(hits)]

\* Array.prototype.find: the first element satisfying the test, 0 for none.
FindEq(h, ids, options) ==
  LET hits == SelectSeq(ids, LAMBDA i : FilterableRequest_eq(h[i], options))
  IN IF hits = <<>> THEN 0 ELSE Head(hits)

\* matchFor going over every request on() ever made instead of the ones the
\* matcher was built with.
matchFor_EveryRequest(h, ids, m, uri, options) ==
  LET requests == SelectSeq([i \in DOMAIN h |-> i], LAMBDA i : FilterableRequest_for(h[i], uri))
  IN IF m = "partial"
     THEN LET sorted == Sort(h, SelectSeq(requests, LAMBDA i : FilterableRequest_pass(h[i], options)), options)
          IN IF sorted = <<>> THEN 0 ELSE sorted[1]
     ELSE FindEq(h, requests, options)

\* RequestMatcher.matchFor over the requests ids of heap h; 0 stands for null.
matchFor(h, ids, m, uri, options) ==
  LET requests == SelectSeq(ids, LAMBDA i : FilterableRequest_for(h[i], uri))
  IN IF m = "partial"
     THEN LET sorted == Sort(h, SelectSeq(requests, LAMBDA i : FilterableRequest_pass(h[i], options)), options)
          IN IF sorted = <<>> THEN 0 ELSE sorted[1]
     ELSE FindEq(h, requests, options)

---------------------------------------------------------------------------
(* util.ts                                                                 *)

\* base used as it is, with its trailing "/".
StripTrailingSlash_Keeps(s) == s

\* base.replace(/\/$/, ""): one trailing "/" is removed.
StripTrailingSlash(s) ==
  IF s # <<>> /\ s[Len(s)] = "/" THEN SubSeq(s, 1, Len(s) - 1) ELSE s

\* joinUri(base, url): the truthy parts, joined with nothing between them.
joinUri(base, url) ==
  LET parts == IF Truthy(base) THEN <<StripTrailingSlash(base.str)>> ELSE <<>>
      first == IF parts # <<>> /\ parts[1] # <<>> THEN parts[1] ELSE <<>>
      rest == IF Truthy(url) THEN url.str ELSE <<>>
  IN Str(first \o rest)

\* extractRequestHeaders on raw headers [common, remaining]: common is the
\* value of the "common" key (undefined or an object), remaining the other
\* entries; entries with a falsy value or a method name as key are dropped.
extractRequestHeaders(incoming) ==
  LET commonHeaders == IF Truthy(incoming.common) THEN incoming.common.entries ELSE <<>>
      remainingHeaders ==
        SelectSeq(incoming.remaining, LAMBDA p : p[2] # "" /\ p[1] \notin Method)
  IN Obj(Spread(commonHeaders, remainingHeaders))

\* config.validateStatus applied to a status: the predicates a caller passes
\* are axios' default (2xx) and one that accepts every status.
validateStatus(name, status) ==
  IF name = "default" THEN status >= 200 /\ status < 300 ELSE TRUE

\* settle resolving whatever the status is.
settle_AlwaysResolves(r, config) ==
  LET got == Request_response(r)
  IN IF got.thrown # ""
     THEN [request |-> got.request, kind |-> got.thrown, message |-> got.message, response |-> NoResponse]
     ELSE [request |-> got.request, kind |-> "resolved", message |-> <<>>, response |-> got.value]

\* settle(request, config): the executor reads request.response, which
\* counts the invocation and may throw (the promise is then rejected with
\* what was thrown); otherwise the status decides between resolve and reject.
settle(r, config) ==
  LET got == Request_response(r)
  IN IF got.thrown # ""
     THEN [request |-> got.request, kind |-> got.thrown, message |-> got.message, response |-> NoResponse]
     ELSE IF got.value.status = 0 \/ config.validateStatus = "undefined"
             \/ validateStatus(config.validateStatus, got.value.status)
     THEN [request |-> got.request, kind |-> "resolved", message |-> <<>>, response |-> got.value]
     ELSE [request |-> got.request, kind |-> "AxiosError",
           message |-> <<"Request failed with status code", got.value.status>>,
           response |-> got.value]

---------------------------------------------------------------------------
(* http-mock.ts: the HttpMock class.  heap holds every Request object made *)
(* by on(), addressed by its index (the handle on() returns); registry     *)
(* holds, per method, the handles in registration order.                   *)

\* The keys of this.registry in the order the constructor writes them, which
\* is the order Object.values visits them.
RegistryKeys ==
  <<"get", "post", "put", "delete", "head", "link", "options", "patch", "purge", "unlink">>

EmptyRegistry == [m \in Method |-> <<>>]

RECURSIVE FlatFrom(_, _)
FlatFrom(reg, i) ==
  IF i > Len(RegistryKeys) THEN <<>> ELSE reg[RegistryKeys[i]] \o FlatFrom(reg, i + 1)

\* Object.values(this.registry).flat()
Flat(reg) == FlatFrom(reg, 1)

\* JSON.parse of a serialized body: <<"0">> is the number 0; an object is
\* written <<"{", k1, v1, ..., kn, vn, "}">>.
JSONParse(s) ==
  IF Head(s) = "{"
  THEN Obj([i \in 1..((Len(s) - 2) \div 2) |-> <<s[2 * i], s[2 * i + 1]>>])
  ELSE Num(0)

\* An AxiosRequestConfig as the adapter reads it.  headers.given is false
\* for a config without headers; data is the serialized body or undefined;
\* validateStatus names the predicate ("undefined" for none).
Config(method, baseURL, url, headers, params, data, validate) ==
  [method |-> method, baseURL |-> baseURL, url |-> url, headers |-> headers,
   params |-> params, data |-> data, validateStatus |-> validate]

NoHeaders == [given |-> FALSE, common |-> Undefined, remaining |-> <<>>]

RawHeaders(common, remaining) == [given |-> TRUE, common |-> common, remaining |-> remaining]

NoConfig == Config("", Undefined, Undefined, NoHeaders, Undefined, Undefined, "undefined")

\* What an operation other than a dispatch leaves in last: "new" after the
\* constructor, "setup" after on() or a setter of a handle, "reset".  The
\* fields registry and matchers are those of a RequestNotFoundError: the
\* registry it was constructed with, held by reference ("this.registry" is
\* the object the mock itself holds), and the list of matchers its message
\* was written with.
Did(op) ==
  [op |-> op, config |-> NoConfig, kind |-> "", request |-> 0, invalid |-> <<>>,
   message |-> <<>>, response |-> NoResponse, uri |-> Undefined, options |-> NoOptions,
   afterReset |-> FALSE, cleared |-> <<>>, registry |-> "none", matchers |-> <<>>]

\* What reading the registry field of a RequestNotFoundError gives: the field
\* holds the object it was constructed with, and for "this.registry" that is
\* the registry of the mock as it is now.
ReadRegistry(ref) == IF ref = "this.registry" THEN registry ELSE EmptyRegistry

\* The call description the adapter builds from an AxiosRequestConfig.
CallUri(config) == joinUri(config.baseURL, config.url)

CallOptions(config) ==
  [body |-> IF Truthy(config.data) THEN JSONParse(config.data.str) ELSE Undefined,
   headers |-> IF config.headers.given THEN extractRequestHeaders(config.headers) ELSE Undefined,
   params |-> config.params]

\* The scan finding every request valid.
invalidRequests_None(h, reg) == <<>>

\* The scan going over every request on() ever made, reset or not.
invalidRequests_IncludesDetached(h, reg) ==
  SelectSeq([i \in DOMAIN h |-> i], LAMBDA i : ~isValid(h[i]))

\* The requests of the whole registry that are not valid.
invalidRequests(h, reg) == SelectSeq(Flat(reg), LAMBDA i : ~isValid(h[i]))

\* this.registry[method] handing every verb's requests to the matcher.
RequestsOf_AllVerbs(reg, method) == Flat(reg)

\* this.registry[method]: the requests the matcher is built with.
RequestsOf(reg, method) == reg[method]

\* The adapter counting an invocation of every request of the call's method
\* when it finds no match.
adapter_CountsOnMiss(h, reg, m, config) ==
  LET invalid == invalidRequests(h, reg)
      uri == CallUri(config)
      options == CallOptions(config)
      own == RequestsOf(reg, config.method)
      request == matchFor(h, own, m, uri, options)
      base == [Did("dispatch") EXCEPT !.config = config]
  IN IF Len(invalid) > 0
     THEN [heap |-> h, result |-> [base EXCEPT !.kind = "InvalidRequestsError", !.invalid = invalid]]
     ELSE IF request = 0
     THEN [heap |-> [i \in DOMAIN h |->
                       IF \E k \in DOMAIN own : own[k] = i
                       THEN [h[i] EXCEPT !.invocationCount = @ + 1] ELSE h[i]],
           result |-> [base EXCEPT !.kind = "RequestNotFoundError", !.uri = uri, !.options = options,
                                   !.registry = "this.registry",
                                   !.matchers = [k \in DOMAIN Flat(reg) |-> toJSON(h[Flat(reg)[k]])]]]
     ELSE LET settled == settle(h[request], config)
          IN [heap |-> [h EXCEPT ![request] = settled.request],
              result |-> [base EXCEPT !.kind = settled.kind, !.request = request,
                                      !.message = settled.message, !.response = settled.response,
                                      !.uri = uri, !.options = options]]

\* The outcome of the function HttpMock.adapter returns, called with config
\* on heap h and registry reg in mode m: the heap afterwards and the result.
adapter(h, reg, m, config) ==
  LET invalid == invalidRequests(h, reg)
      uri == CallUri(config)
      options == CallOptions(config)
      request == matchFor(h, RequestsOf(reg, config.method), m, uri, options)
      base == [Did("dispatch") EXCEPT !.config = config]
  IN IF Len(invalid) > 0
     THEN [heap |-> h, result |-> [base EXCEPT !.kind = "InvalidRequestsError", !.invalid = invalid]]
     ELSE IF request = 0
     THEN [heap |-> h,
           result |-> [base EXCEPT !.kind = "RequestNotFoundError", !.uri = uri, !.options = options,
                                   !.registry = "this.registry",
                                   !.matchers = [k \in DOMAIN Flat(reg) |-> toJSON(h[Flat(reg)[k]])]]]
     ELSE LET settled == settle(h[request], config)
          IN [heap |-> [h EXCEPT ![request] = settled.request],
              result |-> [base EXCEPT !.kind = settled.kind, !.request = request,
                                      !.message = settled.message, !.response = settled.response,
                                      !.uri = uri, !.options = options]]

---------------------------------------------------------------------------
(* The operations of the mock.                                             *)

\* new HttpMock(options): every method has an empty list.
InitMock(modes) ==
  /\ mode \in modes
  /\ heap = <<>>
  /\ registry = EmptyRegistry
  /\ last = Did("new")
  /\ calls = <<>>

\* HttpMock.on(method)
On(method) ==
  /\ Len(heap) < MaxRequests
  /\ heap' = Append(heap, NewRequest(method))
  /\ registry' = [registry EXCEPT ![method] = Append(@, Len(heap) + 1)]
  /\ last' = Did("setup")
  /\ UNCHANGED <<mode, calls>>

\* reset() that skips the first key of the registry.
reset_SkipsFirstKey(reg) == [m \in DOMAIN reg |-> IF m = "get" THEN reg[m] ELSE <<>>]

\* The body of HttpMock.reset(): every key of the registry gets an empty list.
reset(reg) == [m \in DOMAIN reg |-> <<>>]

\* HttpMock.reset()
Reset ==
  /\ registry' = reset(registry)
  /\ last' = [Did("reset") EXCEPT !.cleared = Flat(registry)]
  /\ UNCHANGED <<mode, heap, calls>>

\* handle.to(uri)
To(i, uri) ==
  /\ heap' = [heap EXCEPT ![i] = Request_to(@, uri)]
  /\ last' = Did("setup")
  /\ UNCHANGED <<mode, registry, calls>>

\* handle.with(options)
With(i, o) ==
  /\ heap' = [heap EXCEPT ![i] = Request_with(@, o)]
  /\ last' = Did("setup")
  /\ UNCHANGED <<mode, registry, calls>>

\* handle.once()
Once(i) ==
  /\ heap' = [heap EXCEPT ![i] = Request_once(@)]
  /\ last' = Did("setup")
  /\ UNCHANGED <<mode, registry, calls>>

\* handle.timeout()
Timeout(i) ==
  /\ heap' = [heap EXCEPT ![i] = Request_timeout(@)]
  /\ last' = Did("setup")
  /\ UNCHANGED <<mode, registry, calls>>

\* handle.respondWith(status, response)
RespondWith(i, status, reply) ==
  /\ heap' = [heap EXCEPT ![i] = Request_respondWith(@, status, reply)]
  /\ last' = Did("setup")
  /\ UNCHANGED <<mode, registry, calls>>

\* One run of the function the adapter getter returns, from validation to
\* the settled promise: the function is synchronous and the executor of the
\* promise settle() makes runs inside it, so nothing else runs in between.
AdapterCall(config) ==
  LET out == adapter(heap, registry, mode, config)
  IN /\ \A i \in DOMAIN heap : out.heap[i].invocationCount <= MaxInvocations
     /\ heap' = out.heap
     /\ last' = [out.result EXCEPT !.afterReset = (last.op = "reset"),
                                   !.cleared = IF last.op = "reset" THEN last.cleared ELSE <<>>]
     /\ UNCHANGED <<mode, registry>>

\* A call made and awaited before the test goes on.
Dispatch(config) == AdapterCall(config) /\ UNCHANGED calls

---------------------------------------------------------------------------
(* The inputs the operations are called with.                              *)

UsedMethods == {"get", "post"}

Host == <<"http://host.example">>

UriA == Str(Host \o <<"/", "a">>)

UriB == Str(Host \o <<"/", "b">>)

NoReply == [given |-> FALSE, data |-> Undefined, headers |-> Undefined, plain |-> Undefined]

ToUris == {UriA}

Statuses == {200}

Replies == {NoReply}

Call(method, url, headers, params, data) ==
  Config(method, Undefined, url, headers, params, data, "default")

Configs ==
  {Call("get", UriA, NoHeaders, Undefined, Undefined),
   Call("post", UriA, NoHeaders, Undefined, Undefined),
   Call("get", UriB, NoHeaders, Undefined, Undefined)}

---------------------------------------------------------------------------
(* The mock through its whole life: registration, configuration of uri,   *)
(* outcome and invocation limit through the handles, dispatches and       *)
(* resets, in any order.                                                   *)

Init == InitMock({"strict", "partial"})

Next ==
  \/ \E m \in UsedMethods : On(m)
  \/ Reset
  \/ \E i \in DOMAIN heap, u \in ToUris : To(i, u)
  \/ \E i \in DOMAIN heap : Once(i)
  \/ \E i \in DOMAIN heap : Timeout(i)
  \/ \E i \in DOMAIN heap, s \in Statuses, reply \in Replies : RespondWith(i, s, reply)
  \/ \E c \in Configs : Dispatch(c)

Spec == Init /\ [][Next]_vars

---------------------------------------------------------------------------
(* The matching engine as a function of the registered definitions and    *)
(* the call: the registry is drawn from definitions configured with match *)
(* attributes, and one call is dispatched against it.                      *)

Accept == Obj(<< <<"Accept", "application/json">> >>)

ParamsA == Obj(<< <<"a", "1">> >>)

ParamsAB == Obj(<< <<"a", "1">>, <<"b", "2">> >>)

ParamsAC == Obj(<< <<"a", "1">>, <<"c", "3">> >>)

BodyK == Obj(<< <<"key", "value">> >>)

\* The serialized bodies a call carries: JSON.stringify of 0 and of BodyK.
DataZero == Str(<<"0">>)

DataK == Str(<<"{", "key", "value", "}">>)

DefHeaders == {Undefined, Accept}

DefParams == {Undefined, ParamsAB}

DefBodies == {Undefined, Num(0), BodyK}

\* on("get").to(UriA).with({headers, params, body}).respondWith(200)
Configured(headers, params, body) ==
  Request_respondWith(
    Request_with(Request_to(NewRequest("get"), UriA),
                 [headers |-> headers, params |-> params, body |-> body]),
    200, NoReply)

\* The same with once(), after the one dispatch that selected it.
Exhausted(r) == Request_response(Request_once(r)).request

MatchDefs ==
  LET fresh == {Configured(h, p, b) : h \in DefHeaders, p \in DefParams, b \in DefBodies}
  IN fresh \cup {Exhausted(r) : r \in fresh}

MatchConfigs ==
  {Call("get", u, h, p, d) :
     u \in {UriA, UriB},
     h \in {NoHeaders, RawHeaders(Undefined, Accept.entries)},
     p \in {Undefined, ParamsA, ParamsAB, ParamsAC},
     d \in {Undefined, DataZero, DataK}}

InitMatch ==
  /\ mode \in {"strict", "partial"}
  /\ \E n \in 0..MaxDefs :
       /\ heap \in [1..n -> MatchDefs]
       /\ registry = [EmptyRegistry EXCEPT !["get"] = [i \in 1..n |-> i]]
  /\ last = Did("new")
  /\ calls = <<>>

\* The one call made against the drawn registry.
MatchOnce(config) == last.op = "new" /\ Dispatch(config)

NextMatch == \E c \in MatchConfigs : MatchOnce(c)

SpecMatch == InitMatch /\ [][NextMatch]_vars

---------------------------------------------------------------------------
(* The matching engine on mappings of two keys, written in either order by *)
(* the definitions and in one order by the call.                           *)

Pair == Obj(<< <<"one", "two">>, <<"three", "four">> >>)

PairRev == Obj(<< <<"three", "four">>, <<"one", "two">> >>)

\* JSON.stringify of the body { one: "two", three: "four" }.
DataPair == Str(<<"{", "one", "two", "three", "four", "}">>)

OrderDefs == {Configured(h, p, b) : h \in {Undefined, PairRev},
                                    p \in {Undefined, Pair, PairRev},
                                    b \in {Undefined, PairRev}}

OrderConfigs ==
  {Call("get", UriA, h, p, d) :
     h \in {NoHeaders, RawHeaders(Undefined, Pair.entries)},
     p \in {Undefined, Pair},
     d \in {Undefined, DataPair}}

InitOrder ==
  /\ mode \in {"strict", "partial"}
  /\ \E n \in 1..MaxDefs :
       /\ heap \in [1..n -> OrderDefs]
       /\ registry = [EmptyRegistry EXCEPT !["get"] = [i \in 1..n |-> i]]
  /\ last = Did("new")
  /\ calls = <<>>

NextOrder == \E c \in OrderConfigs : MatchOnce(c)

SpecOrder == InitOrder /\ [][NextOrder]_vars

---------------------------------------------------------------------------
(* One definition from on("get") on: its setters called in any order with  *)
(* any of the arguments below, and calls dispatched against it.            *)

\* respondWith(status, body) with a body that is not a { data, headers }
\* object: the argument is truthy unless it is 0, "" or the like.
PlainReply(body) == [given |-> Truthy(body), data |-> Undefined, headers |-> Undefined, plain |-> body]

\* respondWith(status, { data, headers }); plain is not read for this shape.
ReplyWithHeaders(data, headers) == [given |-> TRUE, data |-> data, headers |-> headers, plain |-> Undefined]

RequestUris == {Str(<<>>), UriA}

RequestStatuses == {0, 200, 404}

RequestReplies == {NoReply, PlainReply(Num(0)), PlainReply(BodyK), ReplyWithHeaders(BodyK, Accept)}

\* Calls for UriA without a validateStatus, with axios' default and with one
\* that accepts every status; and a call without url, whose uri is "".
RequestConfigs ==
  {Config("get", Undefined, UriA, NoHeaders, Undefined, Undefined, v) : v \in {"undefined", "default", "any"}}
    \cup {Config("get", Undefined, Undefined, NoHeaders, Undefined, Undefined, "default")}

InitRequest ==
  /\ mode \in {"strict", "partial"}
  /\ heap = <<NewRequest("get")>>
  /\ registry = [EmptyRegistry EXCEPT !["get"] = <<1>>]
  /\ last = Did("setup")
  /\ calls = <<>>

NextRequest ==
  \/ \E u \in RequestUris : To(1, u)
  \/ Once(1)
  \/ Timeout(1)
  \/ \E st \in RequestStatuses, reply \in RequestReplies : RespondWith(1, st, reply)
  \/ \E c \in RequestConfigs : Dispatch(c)

SpecRequest == InitRequest /\ [][NextRequest]_vars

---------------------------------------------------------------------------
(* Calls in flight.  A caller awaits the promise of its call, so a call is *)
(* made, runs the adapter in one synchronous run, and is delivered to its  *)
(* caller in a later turn of the event loop; in between, other callers and *)
(* the test (on, reset) run.  calls holds, per caller, where its call is   *)
(* and, once the adapter ran, what the call settled with.                  *)

Idle == [pc |-> "idle", config |-> NoConfig, result |-> Did("new")]

\* on("get").to(UriA).respondWith(200), then once(), then timeout() as well.
CallDefs ==
  LET plain == Request_respondWith(Request_to(NewRequest("get"), UriA), 200, NoReply)
  IN {plain, Request_once(plain), Request_timeout(Request_once(plain))}

CallConfigs == {c \in Configs : c.method = "get"}

InitCalls ==
  /\ mode \in {"strict", "partial"}
  /\ \E n \in 1..MaxDefs :
       /\ heap \in [1..n -> CallDefs]
       /\ registry = [EmptyRegistry EXCEPT !["get"] = [i \in 1..n |-> i]]
  /\ last = Did("new")
  /\ calls = [c \in 1..MaxCallers |-> Idle]

\* await client.get(...): the call is made, the adapter has not run yet.
Issue(c, config) ==
  /\ calls[c].pc = "idle"
  /\ calls' = [calls EXCEPT ![c] = [@ EXCEPT !.pc = "pending", !.config = config]]
  /\ UNCHANGED <<mode, heap, registry, last>>

\* The adapter runs for the call of caller c and returns a settled promise.
Adapter(c) ==
  /\ calls[c].pc = "pending"
  /\ AdapterCall(calls[c].config)
  /\ calls' = [calls EXCEPT ![c] = [@ EXCEPT !.pc = "settled", !.result = last']]

\* The caller resumes with what its promise settled with.
Deliver(c) ==
  /\ calls[c].pc = "settled"
  /\ calls' = [calls EXCEPT ![c] = [@ EXCEPT !.pc = "done"]]
  /\ UNCHANGED <<mode, heap, registry, last>>

NextCalls ==
  \/ \E c \in DOMAIN calls, config \in CallConfigs : Issue(c, config)
  \/ \E c \in DOMAIN calls : Adapter(c)
  \/ \E c \in DOMAIN calls : Deliver(c)
  \/ \E m \in UsedMethods : On(m)
  \/ Reset

SpecCalls == InitCalls /\ [][NextCalls]_vars

---------------------------------------------------------------------------
(* Vocabulary of the properties.  A state whose last operation is a        *)
(* dispatch holds the registry and the definitions as the dispatch found   *)
(* them, but for the invocation count of the definition it selected.       *)

Dispatched == last.op = "dispatch"

\* The handles in the registry, of every verb.
Registered == UNION {{registry[m][k] : k \in DOMAIN registry[m]} : m \in Method}

\* The definitions registered under the verb of the last call, in order.
OwnVerb == registry[last.config.method]

\* Definition i as the last dispatch found it.
Before(i) ==
  IF last.request = i THEN [heap[i] EXCEPT !.invocationCount = @ - 1] ELSE heap[i]

\* isComplete of the data model: uri and outcome are both set.
Complete(r) == r.uri # Undefined /\ (r.response.defined \/ r.exception # Undefined)

\* invocationLimit unset, or invocationCount below it.
Invokable(r) == r.maxInvocationCount = Undefined \/ r.invocationCount < r.maxInvocationCount.num

HasOnce(r) == r.maxInvocationCount = Num(1)

\* Structural equality: objects are equal as mappings, other values as values.
SameValue(a, b) ==
  IF a.type = "object" /\ b.type = "object"
  THEN {a.entries[i] : i \in DOMAIN a.entries} = {b.entries[i] : i \in DOMAIN b.entries}
  ELSE a = b

Fields == {"headers", "params", "body"}

\* The first position of a sequence of handles whose definition satisfies P, 0 for none.
FirstWhere(ids, P(_)) ==
  IF \E k \in DOMAIN ids : P(ids[k])
  THEN ids[CHOOSE k \in DOMAIN ids : P(ids[k]) /\ \A j \in 1..(k - 1) : ~P(ids[j])]
  ELSE 0

---------------------------------------------------------------------------
\* C1: whenever a definition of any verb in the registry is incomplete, a
\* dispatch of any call fails with InvalidRequestsError and selects nothing,
\* whatever is registered under the call's own verb.
C1_InvalidDefinitionsFirst ==
  (Dispatched /\ \E i \in Registered : ~Complete(heap[i]))
    => (last.kind = "InvalidRequestsError" /\ last.request = 0)

\* A dispatch failed with InvalidRequestsError although the call's own verb
\* holds only complete definitions, one of which has the call's uri.
C1_Witness ==
  /\ Dispatched
  /\ last.kind = "InvalidRequestsError"
  /\ OwnVerb # <<>>
  /\ \A k \in DOMAIN OwnVerb : Complete(heap[OwnVerb[k]])
  /\ \E k \in DOMAIN OwnVerb :
       heap[OwnVerb[k]].uri = CallUri(last.config) /\ Invokable(heap[OwnVerb[k]])
  /\ \E i \in Registered : ~Complete(heap[i]) /\ heap[i].method # last.config.method

---------------------------------------------------------------------------
(* What the specification says of a definition against the call the last  *)
(* dispatch made (last.uri, last.options).                                 *)

\* Strict mode: the uri is the call's and each of the three fields is
\* deep-equal on both sides, absent on both sides counting as equal.
StrictMatch(r) ==
  /\ r.uri = last.uri
  /\ \A f \in Fields : SameValue(r.options[f], last.options[f])

\* The field is configured on the definition and supplied by the call.
BothPresent(r, f) == r.options[f] # Undefined /\ last.options[f] # Undefined

\* Partial mode's filter: a field absent on either side is ignored, a field
\* present on both sides has to be deep-equal.
PartialPass(r) ==
  /\ r.uri = last.uri
  /\ \A f \in Fields : BothPresent(r, f) => SameValue(r.options[f], last.options[f])

\* The number of fields present on both sides and deep-equal.
Specificity(r) ==
  Cardinality({f \in Fields : BothPresent(r, f) /\ SameValue(r.options[f], last.options[f])})

\* C2: in strict mode the definition selected is the first one, in
\* registration order, among the invokable definitions of the call's verb
\* whose uri is the call's and whose headers, params and body are each
\* deep-equal to the call's; when there is none the dispatch finds no match.
C2_StrictFirstFullMatch ==
  (Dispatched /\ mode = "strict" /\ last.kind # "InvalidRequestsError")
    => LET hit(i) == Invokable(Before(i)) /\ StrictMatch(Before(i))
       IN /\ last.request = FirstWhere(OwnVerb, hit)
          /\ (last.request = 0 <=> last.kind = "RequestNotFoundError")

\* A strict dispatch selected the second registered definition, on equal
\* params and body, after passing over a first one that differs from the
\* call in one field only.
C2_Witness ==
  /\ Dispatched /\ mode = "strict"
  /\ Len(OwnVerb) = 2
  /\ last.request = OwnVerb[2]
  /\ last.options.params # Undefined /\ last.options.body # Undefined
  /\ heap[OwnVerb[1]].uri = last.uri
  /\ Invokable(heap[OwnVerb[1]])
  /\ Cardinality({f \in Fields : ~SameValue(heap[OwnVerb[1]].options[f], last.options[f])}) = 1

\* C3: in partial mode the definition selected is, among the invokable
\* definitions of the call's verb that pass the filter, one with the most
\* fields present on both sides and deep-equal, and the earliest registered
\* of those.
C3_PartialMostSpecificFirst ==
  (Dispatched /\ mode = "partial" /\ last.kind # "InvalidRequestsError")
    => LET cand(i) == Invokable(Before(i)) /\ PartialPass(Before(i))
           best(i) == /\ cand(i)
                      /\ \A k \in DOMAIN OwnVerb :
                           cand(OwnVerb[k]) => Specificity(Before(OwnVerb[k])) <= Specificity(Before(i))
       IN last.request = FirstWhere(OwnVerb, best)

\* C4: in partial mode a definition is selected only if every field that it
\* configures and that the call supplies is deep-equal on both sides.
C4_PartialNoSubsetMatch ==
  (Dispatched /\ mode = "partial" /\ last.request # 0)
    => \A f \in Fields :
         BothPresent(heap[last.request], f)
           => SameValue(heap[last.request].options[f], last.options[f])

---------------------------------------------------------------------------
\* C5: a definition limited by once() is selected only while it has never
\* been invoked, so a dispatch leaves it with a count of exactly one; while
\* unused it is the one selected by a dispatch for its verb and uri that no
\* earlier-registered usable definition answers.  Holds in both modes.
C5_OnceSelectedOnce ==
  Dispatched =>
    \A k \in DOMAIN OwnVerb :
      LET i == OwnVerb[k]
          usable(j) == Invokable(Before(j)) /\ Before(j).uri = CallUri(last.config)
      IN HasOnce(heap[i]) =>
           /\ last.request = i => heap[i].invocationCount = 1
           /\ ( /\ last.kind # "InvalidRequestsError"
                /\ Before(i).invocationCount = 0
                /\ Before(i).uri = CallUri(last.config)
                /\ \A j \in 1..(k - 1) : ~usable(OwnVerb[j]) )
                => last.request = i

\* In partial mode a dispatch for the verb and uri of a once() definition
\* that was invoked once before found no match.
C5_Witness ==
  /\ Dispatched /\ mode = "partial"
  /\ last.kind = "RequestNotFoundError"
  /\ \E k \in DOMAIN OwnVerb :
       /\ HasOnce(heap[OwnVerb[k]])
       /\ heap[OwnVerb[k]].invocationCount = 1
       /\ heap[OwnVerb[k]].uri = CallUri(last.config)

\* The definitions of the call's verb are duplicates limited by once():
\* they all have the call's uri and the same attributes, which match the call.
OnceDuplicates ==
  /\ OwnVerb # <<>>
  /\ \A k \in DOMAIN OwnVerb :
       /\ HasOnce(heap[OwnVerb[k]])
       /\ heap[OwnVerb[k]].options = heap[OwnVerb[1]].options
       /\ StrictMatch(heap[OwnVerb[k]])

\* C6: when the definitions of the call's verb are once() duplicates, the
\* dispatch returns the outcome of the first one in registration order that
\* has not been used, every earlier one having been used; when all have been
\* used it fails with RequestNotFoundError.
C6_OnceDuplicatesInOrder ==
  (Dispatched /\ last.kind # "InvalidRequestsError" /\ OnceDuplicates)
    => LET unused(i) == Before(i).invocationCount = 0
       IN /\ last.request = FirstWhere(OwnVerb, unused)
          /\ last.request = 0 => last.kind = "RequestNotFoundError"
          /\ last.request # 0 =>
               IF heap[last.request].exception # Undefined
               THEN last.kind = "Error" /\ last.message = heap[last.request].exception.str
               ELSE last.kind = "resolved" /\ last.response = heap[last.request].response

\* The dispatch after two once() duplicates were each used once: no match.
C6_Witness ==
  /\ Dispatched /\ OnceDuplicates
  /\ Len(OwnVerb) = 2
  /\ \A k \in DOMAIN OwnVerb : heap[OwnVerb[k]].invocationCount = 1
  /\ last.kind = "RequestNotFoundError"

\* C7: a definition is created with invocationCount 0; a step changes the
\* count of a definition only when it is a dispatch that selects it, and
\* then by exactly one; no definition disappears.
C7_CountByOnePerSelection ==
  [][ /\ Len(heap') >= Len(heap)
      /\ \A i \in DOMAIN heap' :
           heap'[i].invocationCount =
             (IF i \in DOMAIN heap THEN heap[i].invocationCount ELSE 0)
               + (IF last'.op = "dispatch" /\ last'.request = i THEN 1 ELSE 0) ]_vars

\* A definition was selected a second time.
C7_Witness ==
  /\ Dispatched
  /\ last.request # 0
  /\ heap[last.request].invocationCount = 2

\* C8: reset() leaves every verb with an empty sequence, and the dispatch
\* made right after a reset fails with RequestNotFoundError.
C8_ResetThenNoMatch ==
  /\ last.op = "reset" => \A m \in Method : registry[m] = <<>>
  /\ (Dispatched /\ last.afterReset)
       => (last.kind = "RequestNotFoundError" /\ last.request = 0)

\* The dispatch right after a reset found no match for a call that a
\* definition of the registry answered until the reset (every cleared
\* definition was complete, one usable with the call's verb and uri).
C8_Witness ==
  /\ Dispatched /\ last.afterReset
  /\ last.kind = "RequestNotFoundError"
  /\ \A k \in DOMAIN last.cleared : Complete(heap[last.cleared[k]])
  /\ \E k \in DOMAIN last.cleared :
       LET r == heap[last.cleared[k]]
       IN r.method = last.config.method /\ r.uri = last.uri /\ Invokable(r)

\* C9: a dispatch that selects a definition on which timeout() was called
\* ends in the thrown error "Timeout" and carries no response, whether or
\* not respondWith() was called on the definition as well.
C9_FailureNeverResolves ==
  (Dispatched /\ last.request # 0 /\ heap[last.request].exception # Undefined)
    => /\ last.kind = "Error"
       /\ last.message = <<"Timeout">>
       /\ last.response = NoResponse

\* A dispatch selected a definition with both a failure and a response.
C9_Witness ==
  /\ Dispatched
  /\ last.request # 0
  /\ heap[last.request].exception # Undefined
  /\ heap[last.request].response.defined
  /\ last.kind = "Error"

\* C10: when every registered definition is complete and no definition of
\* the call's verb is usable for the call's uri, the dispatch fails with
\* RequestNotFoundError; so does every dispatch against an empty registry.
C10_NoCandidateIsNotFound ==
  Dispatched =>
    /\ ( /\ \A i \in Registered : Complete(heap[i])
         /\ ~\E k \in DOMAIN OwnVerb :
              Invokable(Before(OwnVerb[k])) /\ Before(OwnVerb[k]).uri = CallUri(last.config) )
         => (last.kind = "RequestNotFoundError" /\ last.request = 0)
    /\ Registered = {} => last.kind = "RequestNotFoundError"

\* A dispatch found no match although its verb holds a complete definition.
C10_Witness ==
  /\ Dispatched
  /\ last.kind = "RequestNotFoundError"
  /\ OwnVerb # <<>>
  /\ \A i \in Registered : Complete(heap[i])

---------------------------------------------------------------------------
\* C11: a dispatch selects only a definition that was created for the call's
\* verb and is registered under it, and leaves every definition of another
\* verb as it was, invocation count included.
C11_OnlyOwnVerb ==
  [][ last'.op = "dispatch" =>
        /\ last'.request # 0 =>
              /\ heap'[last'.request].method = last'.config.method
              /\ \E k \in DOMAIN registry[last'.config.method] :
                   registry[last'.config.method][k] = last'.request
        /\ \A i \in DOMAIN heap : heap[i].method # last'.config.method => heap'[i] = heap[i] ]_vars

\* A dispatch selected a definition of its verb that was registered after a
\* definition of another verb with the same uri and attributes, complete
\* and invokable, whose count is still zero.
C11_Witness ==
  /\ Dispatched
  /\ last.request # 0
  /\ \E i \in 1..(last.request - 1) :
       /\ i \in Registered
       /\ heap[i].method # last.config.method
       /\ heap[i].uri = heap[last.request].uri
       /\ heap[i].options = heap[last.request].options
       /\ Complete(heap[i]) /\ Invokable(heap[i])
       /\ heap[i].invocationCount = 0

---------------------------------------------------------------------------
\* The callers whose call ran the adapter and selected definition i.
SelectedBy(i) ==
  {c \in DOMAIN calls : calls[c].pc \in {"settled", "done"} /\ calls[c].result.request = i}

\* C12: whatever the order in which the calls in flight are made, run and
\* delivered, a definition limited by once() is selected and materialized by
\* at most one of them: its count never exceeds one, and a call that runs
\* the adapter after another selected it does not select it.
C12_OnceSelectedByOneCall ==
  \A i \in DOMAIN heap :
    HasOnce(heap[i]) =>
      /\ Cardinality(SelectedBy(i)) <= 1
      /\ heap[i].invocationCount = Cardinality(SelectedBy(i))

\* Two calls for the uri of the only definition, limited by once(), are both
\* in flight, neither delivered yet: one selected the definition, the other
\* found no match.
C12_Witness ==
  /\ Len(heap) = 1 /\ HasOnce(heap[1]) /\ 1 \in Registered
  /\ \A c \in DOMAIN calls : calls[c].pc = "settled" /\ CallUri(calls[c].config) = heap[1].uri
  /\ \E c, d \in DOMAIN calls :
       /\ calls[c].result.request = 1
       /\ calls[d].result.kind = "RequestNotFoundError"

---------------------------------------------------------------------------
(* Permutations of the keys of a mapping: with two keys, the reversal.     *)

ReverseSeq(q) == [k \in DOMAIN q |-> q[Len(q) + 1 - k]]

ReverseKeys(v) == IF v.type = "object" THEN Obj(ReverseSeq(v.entries)) ELSE v

\* A serialized object with its members written in the reverse order.
ReverseData(d) ==
  IF d.type = "string" /\ Len(d.str) > 2
  THEN LET n == (Len(d.str) - 2) \div 2
       IN Str(<<"{">> \o [k \in 1..(2 * n) |->
                            d.str[1 + 2 * (n - 1 - ((k - 1) \div 2)) + (IF k % 2 = 1 THEN 1 ELSE 2)]]
                     \o <<"}">>)
  ELSE d

\* The call config with the keys of the fields in F reversed.
PermutedCall(config, F) ==
  [config EXCEPT
     !.headers = IF "headers" \in F THEN [@ EXCEPT !.remaining = ReverseSeq(@)] ELSE @,
     !.params = IF "params" \in F THEN ReverseKeys(@) ELSE @,
     !.data = IF "body" \in F THEN ReverseData(@) ELSE @]

\* The definition with the keys of its configured fields in F reversed.
PermutedDef(r, F) ==
  [r EXCEPT !.options = [f \in Fields |-> IF f \in F THEN ReverseKeys(r.options[f]) ELSE r.options[f]]]

\* The definitions as the last dispatch found them.
HeapBefore == [i \in DOMAIN heap |-> Before(i)]

\* C13: the definition a dispatch selects is the one it selects when the
\* keys of any of the call's headers, params and body are permuted, and when
\* the keys of any configured field of any one definition are permuted, in
\* strict and in partial mode.
C13_KeyOrderIrrelevant ==
  Dispatched =>
    /\ \A F \in SUBSET Fields :
         adapter(HeapBefore, registry, mode, PermutedCall(last.config, F)).result.request
           = last.request
    /\ \A i \in DOMAIN heap, F \in SUBSET Fields :
         adapter([HeapBefore EXCEPT ![i] = PermutedDef(@, F)], registry, mode, last.config).result.request
           = last.request

\* A partial-mode dispatch selected the second definition, whose headers,
\* params and body are all written in the order opposite to the call's,
\* over a first one that matches the call on fewer fields.
C13_Witness ==
  /\ Dispatched /\ mode = "partial"
  /\ Len(OwnVerb) = 2
  /\ last.request = OwnVerb[2]
  /\ \A f \in Fields :
       /\ last.options[f] = Pair
       /\ heap[last.request].options[f] = PairRev

---------------------------------------------------------------------------
\* The first two definitions of the call's verb have no invocation limit,
\* the call's uri and the same attributes, which match the call.
UnlimitedDuplicates ==
  /\ Len(OwnVerb) >= 2
  /\ \A k \in 1..2 :
       /\ heap[OwnVerb[k]].maxInvocationCount = Undefined
       /\ heap[OwnVerb[k]].options = heap[OwnVerb[1]].options
       /\ StrictMatch(heap[OwnVerb[k]])

\* C14: in strict mode, when the first two definitions of the call's verb
\* are duplicates without once(), a matching dispatch selects the first and
\* returns its outcome, however often the first was selected before; the
\* second is not selected.
C14_UnlimitedFirstAlways ==
  (Dispatched /\ mode = "strict" /\ last.kind # "InvalidRequestsError" /\ UnlimitedDuplicates)
    => /\ last.request = OwnVerb[1]
       /\ IF heap[OwnVerb[1]].exception # Undefined
          THEN last.kind = "Error" /\ last.message = heap[OwnVerb[1]].exception.str
          ELSE last.kind = "resolved" /\ last.response = heap[OwnVerb[1]].response

\* The first of two duplicates without once() was selected for the
\* MaxInvocations-th time; the second has never been selected.
C14_Witness ==
  /\ Dispatched /\ mode = "strict" /\ UnlimitedDuplicates
  /\ last.request = OwnVerb[1]
  /\ last.kind = "resolved"
  /\ heap[OwnVerb[1]].invocationCount = MaxInvocations
  /\ heap[OwnVerb[2]].invocationCount = 0

---------------------------------------------------------------------------
\* C15: in strict mode a definition without any attribute is selected only
\* by a call without headers, params and body; when no definition of the
\* call's verb has an attribute, a call carrying any of the three finds no
\* match.
C15_StrictBareMatchesBare ==
  (Dispatched /\ mode = "strict" /\ last.kind # "InvalidRequestsError")
    => /\ (last.request # 0 /\ heap[last.request].options = NoOptions)
            => last.options = NoOptions
       /\ ( /\ last.options # NoOptions
            /\ \A k \in DOMAIN OwnVerb : heap[OwnVerb[k]].options = NoOptions )
            => last.kind = "RequestNotFoundError"

\* A strict dispatch that carries nothing but a body found no match against
\* a registry whose definitions have no attributes, one of them invokable
\* with the call's uri.
C15_Witness ==
  /\ Dispatched /\ mode = "strict"
  /\ last.kind = "RequestNotFoundError"
  /\ last.options.headers = Undefined /\ last.options.params = Undefined
  /\ last.options.body = BodyK
  /\ \A k \in DOMAIN OwnVerb : heap[OwnVerb[k]].options = NoOptions
  /\ \E k \in DOMAIN OwnVerb : heap[OwnVerb[k]].uri = last.uri /\ Invokable(heap[OwnVerb[k]])

---------------------------------------------------------------------------
\* C16: the validator accepts a definition exactly when its uri and its
\* outcome are both set: not a new definition, not one with only a uri, and
\* every one that to() gave a uri and respondWith() or timeout() an outcome.
C16_ValidIffUriAndOutcome ==
  \A i \in DOMAIN heap : isValid(heap[i]) <=> Complete(heap[i])

---------------------------------------------------------------------------
\* C17: the InvalidRequestsError of a dispatch is constructed with exactly
\* the incomplete definitions of the registry, of every verb, each once: no
\* incomplete definition is missing and no complete one is listed.
C17_InvalidListsIncomplete ==
  (Dispatched /\ last.kind = "InvalidRequestsError")
    => /\ {last.invalid[k] : k \in DOMAIN last.invalid} = {i \in Registered : ~Complete(heap[i])}
       /\ Len(last.invalid) = Cardinality({i \in Registered : ~Complete(heap[i])})

---------------------------------------------------------------------------
\* C18: a RequestNotFoundError carries the config of the call that raised it
\* and the definitions of every verb as they were registered when it was
\* raised: the definitions read from the error at any later time are the
\* ones its message listed, whatever on() and reset() did since.
C18_NotFoundKeepsSnapshot ==
  \A c \in DOMAIN calls :
    (calls[c].pc \in {"settled", "done"} /\ calls[c].result.kind = "RequestNotFoundError")
      => /\ calls[c].result.config = calls[c].config
         /\ LET now == Flat(ReadRegistry(calls[c].result.registry))
            IN [k \in DOMAIN now |-> toJSON(heap[now[k]])] = calls[c].result.matchers

---------------------------------------------------------------------------
\* The last dispatch selected a definition whose outcome is a response.
SelectedSuccess ==
  /\ Dispatched
  /\ last.request # 0
  /\ heap[last.request].exception = Undefined

\* The call of the last dispatch has no validateStatus, or one that accepts
\* the status.
Accepted(status) ==
  \/ last.config.validateStatus = "undefined"
  \/ validateStatus(last.config.validateStatus, status)

\* C19 as stated: a selected response is materialized with its configured
\* status, whatever the status; the call resolves when it has no
\* validateStatus or validateStatus accepts the status, and otherwise rejects
\* with "Request failed with status code <status>".
C19_PredicateAloneDecides ==
  SelectedSuccess =>
    LET configured == heap[last.request].response
    IN /\ last.response = configured
       /\ IF Accepted(configured.status)
          THEN last.kind = "resolved"
          ELSE /\ last.kind = "AxiosError"
               /\ last.message = <<"Request failed with status code", configured.status>>

\* C19 as amended: the same, but a response whose status is 0 resolves
\* whatever validateStatus says of it.
C19_StatusZeroOrPredicate ==
  SelectedSuccess =>
    LET configured == heap[last.request].response
    IN /\ last.response = configured
       /\ IF configured.status = 0 \/ Accepted(configured.status)
          THEN last.kind = "resolved"
          ELSE /\ last.kind = "AxiosError"
               /\ last.message = <<"Request failed with status code", configured.status>>

\* A call with axios' default validateStatus selected a response of status
\* 404 and was rejected; the response it carries has the status 404.
C19_Witness ==
  /\ SelectedSuccess
  /\ last.config.validateStatus = "default"
  /\ heap[last.request].response.status = 404
  /\ last.kind = "AxiosError"
  /\ last.response.status = 404

---------------------------------------------------------------------------
\* The body and the headers a respondWith(status, reply) call configures: of
\* a { data, headers } reply its data and headers, of any other reply the
\* reply itself as the body and no headers; without a reply, no body.
ConfiguredBody(reply) ==
  IF reply.data # Undefined /\ reply.headers # Undefined THEN reply.data ELSE reply.plain

ConfiguredHeaders(reply) ==
  IF reply.data # Undefined /\ reply.headers # Undefined THEN reply.headers ELSE Obj(<<>>)

\* C20: respondWith(status, reply) leaves the definition with exactly the
\* configured status, body and headers (the empty mapping when no headers
\* were configured, no body when none was), and a dispatch that selects the
\* definition produces exactly that response.
C20_ConfiguredResponseProduced ==
  [][ /\ \A i \in DOMAIN heap, st \in RequestStatuses, reply \in RequestReplies :
           RespondWith(i, st, reply)
             => heap'[i].response = [defined |-> TRUE, status |-> st,
                                     data |-> ConfiguredBody(reply),
                                     headers |-> ConfiguredHeaders(reply)]
      /\ (last'.op = "dispatch" /\ last'.request # 0 /\ heap[last'.request].exception = Undefined)
           => last'.response = heap[last'.request].response ]_vars

---------------------------------------------------------------------------
(* Calls made with a baseURL: the registry is drawn from definitions on    *)
(* the uris a base and a path can join to, and one call is dispatched.     *)

\* baseURL of a call: none, "", the host, the host with one and with two
\* trailing slashes, and "/".
BaseUrls ==
  {Undefined, Str(<<>>), Str(Host), Str(Host \o <<"/">>), Str(Host \o <<"/", "/">>), Str(<<"/">>)}

\* url of a call: none, a path with and without its leading slash, a full uri.
CallUrls == {Undefined, Str(<<"/", "a">>), Str(<<"a">>), UriA}

\* on("get").to(u).respondWith(200) for the uris the calls can join to.
UriDefs ==
  {Request_respondWith(Request_to(NewRequest("get"), u), 200, NoReply) :
     u \in {UriA, Str(Host \o <<"a">>), Str(<<"/", "a">>), Str(Host \o <<"/", "/", "a">>)}}

UriConfigs ==
  {Config("get", b, u, NoHeaders, Undefined, Undefined, "default") : b \in BaseUrls, u \in CallUrls}

InitUri ==
  /\ mode \in {"strict", "partial"}
  /\ \E n \in 0..MaxDefs :
       /\ heap \in [1..n -> UriDefs]
       /\ registry = [EmptyRegistry EXCEPT !["get"] = [i \in 1..n |-> i]]
  /\ last = Did("new")
  /\ calls = <<>>

NextUri == \E c \in UriConfigs : MatchOnce(c)

SpecUri == InitUri /\ [][NextUri]_vars

---------------------------------------------------------------------------
\* The characters of a string that may be absent.
Chars(v) == IF v = Undefined THEN <<>> ELSE v.str

EndsWithSlash(s) == s # <<>> /\ s[Len(s)] = "/"

\* The base with one trailing slash removed, followed by the path.
JoinedUri(config) ==
  LET base == Chars(config.baseURL)
  IN Str((IF EndsWithSlash(base) THEN SubSeq(base, 1, Len(base) - 1) ELSE base)
           \o Chars(config.url))

\* The calls that differ from config by one trailing slash of the base only.
SlashTwins(config) ==
  LET base == Chars(config.baseURL)
  IN IF config.baseURL = Undefined THEN {}
     ELSE IF ~EndsWithSlash(base) THEN {[config EXCEPT !.baseURL = Str(base \o <<"/">>)]}
     ELSE IF ~EndsWithSlash(SubSeq(base, 1, Len(base) - 1))
     THEN {[config EXCEPT !.baseURL = Str(SubSeq(base, 1, Len(base) - 1))]}
     ELSE {}

\* C21: a call is matched against one uri string, the base with one trailing
\* slash removed followed by the url (the url alone without a base): the
\* definition selected is the first invokable one with that uri, and the
\* same call with the trailing slash of its base added or removed selects
\* the same definition.
C21_MatchedOnJoinedUri ==
  (Dispatched /\ last.kind # "InvalidRequestsError")
    => /\ last.uri = JoinedUri(last.config)
       /\ last.request = FirstWhere(OwnVerb,
                           LAMBDA i : Invokable(Before(i)) /\ heap[i].uri = JoinedUri(last.config))
       /\ last.config.baseURL = Undefined => last.uri = Str(Chars(last.config.url))
       /\ \A twin \in SlashTwins(last.config) :
            adapter(HeapBefore, registry, mode, twin).result.request = last.request

\* A call of "/a" on the base with a trailing slash selected the definition
\* on the host's /a, registered second.
C21_Witness ==
  /\ Dispatched
  /\ last.config.baseURL = Str(Host \o <<"/">>)
  /\ last.config.url = Str(<<"/", "a">>)
  /\ last.kind = "resolved"
  /\ last.request = 2
  /\ heap[2].uri = UriA

---------------------------------------------------------------------------
\* C22: no definition has both a response (Success) and an exception
\* (Failure) set, whatever respondWith() and timeout() calls were made on
\* it, and a definition with neither is not valid.
C22_OneOutcomeOrNone ==
  \A i \in DOMAIN heap :
    /\ ~(heap[i].response.defined /\ heap[i].exception # Undefined)
    /\ (~heap[i].response.defined /\ heap[i].exception = Undefined) => ~isValid(heap[i])

---------------------------------------------------------------------------
\* Neither a response nor an exception is configured.
NoOutcome(r) == ~r.response.defined /\ r.exception = Undefined

\* C23: no dispatch ends in UnconfiguredResponseError, whatever was
\* registered, configured, reset and dispatched before: a definition
\* without an outcome makes the dispatch fail with InvalidRequestsError
\* and is not selected.  Reading the response of such a definition directly
\* throws UnconfiguredResponseError and gives no response.
C23_UnconfiguredUnreachable ==
  /\ Dispatched
       => /\ last.kind # "UnconfiguredResponseError"
          /\ (\E i \in Registered : NoOutcome(Before(i)))
               => (last.kind = "InvalidRequestsError" /\ last.request = 0)
  /\ \A i \in DOMAIN heap :
       NoOutcome(heap[i])
         => /\ Request_response(heap[i]).thrown = "UnconfiguredResponseError"
            /\ Request_response(heap[i]).value = NoResponse

\* A call was dispatched for the uri of the only definition of its verb,
\* which has no outcome: the dispatch failed listing that definition.
C23_Witness ==
  /\ Dispatched
  /\ OwnVerb # <<>>
  /\ \A k \in DOMAIN OwnVerb :
       /\ NoOutcome(heap[OwnVerb[k]])
       /\ heap[OwnVerb[k]].uri = CallUri(last.config)
  /\ last.kind = "InvalidRequestsError"
  /\ last.invalid = OwnVerb

---------------------------------------------------------------------------
\* A once() definition configured with timeout() that was selected before.
SpentFailure(r) == HasOnce(r) /\ r.exception # Undefined /\ r.invocationCount >= 1

\* C24: a dispatch that selects a definition configured with timeout()
\* rejects with the Timeout error and counts the invocation all the same;
\* a once() definition with timeout() is therefore selected when its count
\* is 0 only, is not invokable afterwards, and a dispatch finding nothing
\* but such spent definitions for its uri ends in RequestNotFoundError.
C24_FailureCountsInvocation ==
  [][ last'.op = "dispatch"
        => /\ (last'.request # 0 /\ heap[last'.request].exception # Undefined)
                => /\ last'.kind = "Error"
                   /\ last'.message = <<"Timeout">>
                   /\ heap'[last'.request].invocationCount = heap[last'.request].invocationCount + 1
                   /\ HasOnce(heap[last'.request])
                        => /\ heap[last'.request].invocationCount = 0
                           /\ ~isInvokable(heap'[last'.request])
           /\ \A i \in DOMAIN heap : SpentFailure(heap[i]) => last'.request # i
           /\ ( /\ last'.kind # "InvalidRequestsError"
                /\ \A k \in DOMAIN registry[last'.config.method] :
                     LET r == heap[registry[last'.config.method][k]]
                     IN r.uri = CallUri(last'.config) => SpentFailure(r) )
                => last'.kind = "RequestNotFoundError" ]_vars

\* A dispatch for the uri of a once() definition with timeout(), the only
\* one of its verb and selected once before, ended in RequestNotFoundError.
C24_Witness ==
  /\ Dispatched
  /\ Len(OwnVerb) = 1
  /\ SpentFailure(heap[OwnVerb[1]])
  /\ heap[OwnVerb[1]].invocationCount = 1
  /\ heap[OwnVerb[1]].uri = CallUri(last.config)
  /\ last.kind = "RequestNotFoundError"

---------------------------------------------------------------------------
\* C25: in partial mode a field absent on either side is ignored: when an
\* invokable definition of the call's verb and uri has every field it
\* shares with the call deep-equal, the dispatch finds a definition (that
\* one when it is the only one registered); and a call carrying no headers,
\* params or body selects the first registered invokable definition of its
\* uri, whatever that definition configures.
C25_PartialAbsentIgnored ==
  (Dispatched /\ mode = "partial" /\ last.kind # "InvalidRequestsError")
    => LET cand(i) == Invokable(Before(i)) /\ PartialPass(Before(i))
           sameUri(i) == Invokable(Before(i)) /\ Before(i).uri = last.uri
       IN /\ (\E k \in DOMAIN OwnVerb : cand(OwnVerb[k])) => last.request # 0
          /\ (Len(OwnVerb) = 1 /\ cand(OwnVerb[1])) => last.request = OwnVerb[1]
          /\ last.options = NoOptions => last.request = FirstWhere(OwnVerb, sameUri)

\* A partial dispatch of a call without attributes selected the first
\* registered definition, which configures headers, params and body, ahead
\* of a second one that configures nothing.
C25_Witness ==
  /\ Dispatched /\ mode = "partial"
  /\ last.options = NoOptions
  /\ Len(OwnVerb) = 2
  /\ last.request = OwnVerb[1]
  /\ \A f \in Fields : heap[OwnVerb[1]].options[f] # Undefined
  /\ heap[OwnVerb[2]].options = NoOptions
  /\ Invokable(heap[OwnVerb[2]]) /\ heap[OwnVerb[2]].uri = last.uri

---------------------------------------------------------------------------
(* One definition whose match attributes are set by with() calls, in any   *)
(* number and order, and calls dispatched against it.                      *)

\* The arguments of with(): the fields a call supplies and their values.
\* A field may be supplied as undefined.
WithArgs ==
  {[headers |-> Accept, params |-> ParamsAB],
   [params |-> ParamsAC],
   [body |-> BodyK],
   [headers |-> Undefined, body |-> Num(0)],
   [headers |-> Accept, params |-> ParamsA, body |-> BodyK]}

WithConfigs ==
  {Call("get", UriA, h, p, d) :
     h \in {NoHeaders, RawHeaders(Undefined, Accept.entries)},
     p \in {Undefined, ParamsAB, ParamsAC},
     d \in {Undefined, DataK}}

InitWith == InitRequest

NextWith ==
  \/ \E o \in WithArgs : With(1, o)
  \/ To(1, UriA)
  \/ RespondWith(1, 200, NoReply)
  \/ \E c \in WithConfigs : Dispatch(c)

SpecWith == InitWith /\ [][NextWith]_vars

---------------------------------------------------------------------------
\* C26: a with() call leaves each of headers, params and body with the
\* value the call gives for it when the call supplies the field (the whole
\* value, whatever the field held before) and with its earlier value when
\* the call does not supply it; so after any sequence of with() calls each
\* field holds what the last call supplying it gave.
C26_WithMergesShallowly ==
  [][ \A o \in WithArgs :
        With(1, o)
          => \A f \in Fields :
               heap'[1].options[f] = (IF f \in DOMAIN o THEN o[f] ELSE heap[1].options[f]) ]_vars

\* with({ headers, params: {a, b} }) and then with({ params: {a, c} }): the
\* headers are those of the first call, the params those of the second
\* alone, and a strict call with exactly these was answered.
C26_Witness ==
  /\ heap[1].options = [headers |-> Accept, params |-> ParamsAC, body |-> Undefined]
  /\ Dispatched /\ mode = "strict"
  /\ last.request = 1
  /\ last.options.params = ParamsAC

---------------------------------------------------------------------------
\* C27: the registry has one sequence for each method of METHODS and for
\* nothing else, whatever was registered, configured, dispatched and reset,
\* and every definition in the sequence of a method was made for that
\* method; no definition is in two places.
C27_RegistryKeyedByVerb ==
  /\ DOMAIN registry = Method
  /\ Cardinality(DOMAIN registry) = Len(METHODS)
  /\ \A m \in Method :
       \A k \in DOMAIN registry[m] :
         /\ registry[m][k] \in DOMAIN heap
         /\ heap[registry[m][k]].method = m
  /\ Len(Flat(registry)) = Cardinality(Registered)

\* After a reset that detached a definition, a definition registered for
\* post is in the sequence of post, and a call was dispatched.
C27_Witness ==
  /\ Dispatched
  /\ DOMAIN heap \ Registered # {}
  /\ registry["post"] # <<>>
  /\ heap[registry["post"][1]].method = "post"

---------------------------------------------------------------------------
\* C28: a dispatch that ends in InvalidRequestsError or in
\* RequestNotFoundError changes nothing: every definition, its invocation
\* count included, the registry and the mode are as they were before it.
C28_FailedDispatchChangesNothing ==
  [][ (last'.op = "dispatch" /\ last'.kind \in {"InvalidRequestsError", "RequestNotFoundError"})
        => /\ last'.request = 0
           /\ heap' = heap
           /\ registry' = registry
           /\ mode' = mode ]_vars

\* A dispatch found no match among two registered definitions of its
\* method, one of them selected before.
C28_Witness ==
  /\ Dispatched
  /\ last.kind = "RequestNotFoundError"
  /\ Len(OwnVerb) = 2
  /\ \E k \in DOMAIN OwnVerb : heap[OwnVerb[k]].invocationCount = 1
  /\ \E k \in DOMAIN OwnVerb : heap[OwnVerb[k]].invocationCount = 0

---------------------------------------------------------------------------
(* A test that registers, configures and resets between calls it awaits    *)
(* one after the other: calls holds what each call settled with, in the    *)
(* order the calls were made.                                              *)

InitAwait ==
  /\ mode \in {"strict", "partial"}
  /\ heap = <<>>
  /\ registry = EmptyRegistry
  /\ last = Did("new")
  /\ calls = [c \in 1..MaxCallers |-> Idle]

\* await client.get(...): the next call of the test, made and awaited.
Await(c, config) ==
  /\ calls[c].pc = "idle"
  /\ \A d \in 1..(c - 1) : calls[d].pc = "done"
  /\ AdapterCall(config)
  /\ calls' = [calls EXCEPT ![c] = [pc |-> "done", config |-> config, result |-> last']]

NextAwait ==
  \/ On("get")
  \/ Reset
  \/ \E i \in DOMAIN heap : To(i, UriA)
  \/ \E i \in DOMAIN heap : RespondWith(i, 200, NoReply)
  \/ \E c \in DOMAIN calls : Await(c, Call("get", UriA, NoHeaders, Undefined, Undefined))

SpecAwait == InitAwait /\ [][NextAwait]_vars

---------------------------------------------------------------------------
\* C29: every dispatch validates the registry as it is then: it fails with
\* InvalidRequestsError exactly when a registered definition is incomplete
\* at that moment, whatever earlier dispatches ended in; so a dispatch after
\* the incomplete definitions were completed or reset goes on to matching,
\* and one after an incomplete definition was registered fails.
C29_ValidatedOnEveryDispatch ==
  [][ last'.op = "dispatch"
        => /\ last'.kind = "InvalidRequestsError" <=> \E i \in Registered : ~Complete(heap[i])
           /\ last'.kind = "InvalidRequestsError" => last'.invalid # <<>> ]_vars

\* The first call failed with InvalidRequestsError; the definition was then
\* completed through its handle, and the same call, made again, resolved.
C29_Witness ==
  /\ calls[1].pc = "done" /\ calls[2].pc = "done"
  /\ calls[1].result.kind = "InvalidRequestsError"
  /\ calls[2].config = calls[1].config
  /\ calls[2].result.kind = "resolved"
  /\ \E k \in DOMAIN calls[1].result.invalid : calls[1].result.invalid[k] = calls[2].result.request

---------------------------------------------------------------------------
\* The handles on() returned that a reset() has taken out of the registry.
Detached == DOMAIN heap \ Registered

\* What the setters can make of a handle: nothing configured, a uri only, a
\* complete definition, with once(), with timeout() instead of a response.
Reconfigured(method) ==
  LET bare == NewRequest(method)
      complete == Request_respondWith(Request_to(bare, UriA), 200, NoReply)
  IN {bare, Request_to(bare, UriA), complete, Request_once(complete),
      Request_timeout(Request_to(bare, UriA))}

\* What a dispatch ended in, as its caller sees it.
Seen(result) ==
  [kind |-> result.kind, request |-> result.request, invalid |-> result.invalid,
   message |-> result.message, response |-> result.response]

\* C30: a handle obtained before a reset() is out of the dispatches made
\* after it: no dispatch selects it or lists it as invalid, a dispatch fails
\* with InvalidRequestsError only for an incomplete definition that is
\* registered, and whatever the handle is configured to, the dispatch ends
\* as it did.
C30_ResetDetachesHandles ==
  Dispatched
    => /\ last.request \notin Detached
       /\ \A k \in DOMAIN last.invalid : last.invalid[k] \notin Detached
       /\ last.kind = "InvalidRequestsError" => \E i \in Registered : ~Complete(heap[i])
       /\ \A j \in Detached :
            \A r \in Reconfigured(heap[j].method) :
              Seen(adapter([HeapBefore EXCEPT ![j] = r], registry, mode, last.config).result)
                = Seen(last)

\* A handle from before a reset is on the uri of the call and has no
\* outcome; the call resolved with the definition registered after the reset.
C30_Witness ==
  /\ Dispatched
  /\ \E j \in Detached : heap[j].uri = last.uri /\ NoOutcome(heap[j])
  /\ last.kind = "resolved"
  /\ last.request \in Registered

====
